---------------------------- MODULE Spec2Model ----------------------------
(***************************************************************************)
(* Model of backend/etl/collectGameData.py: the game-data ingestion run    *)
(* (main), the column resolver (normalize_column_names) and the cleaner    *)
(* (clean_data).                                                           *)
(*                                                                         *)
(* Text is a sequence of one-character strings, so that lower(), strip()   *)
(* and the parsers are computed and not assumed.  A cell of a data frame   *)
(* is a record [k, s, n]: k is the kind of value ("str" a Python string,   *)
(* "num" a number, "nan" a missing value, "ts" a timestamp, "nat" a        *)
(* missing timestamp), s the text of a string, n the number.               *)
(***************************************************************************)
EXTENDS Integers, Sequences, FiniteSets, TLC

VARIABLES
    pc,                 \* position of main(): see the actions
    runs,               \* number of runs of the script started so far
    if_exists,          \* args.if_exists
    nfiles,             \* len(csv_files)
    i,                  \* index of the csv_file the loop of line 100 is at
    dataframes,         \* list of df_selected
    total_rows_before,  \* rows loaded so far
    combined_df,        \* the frame concatenated, cleaned and written
    table,              \* the SQLite table args.table of args.db
    row_count,          \* <<the result of SELECT COUNT(*)>>, <<>> before it
    err,                \* the error printed before sys.exit(1), "none" if none
    missing_col,        \* the column that error names, "None" if none
    warned,             \* "Warning: Could not verify row count" was printed
    exit_code,          \* the process's exit status, "none" while running
    prior,              \* the table as it was when the run started
    scenario,           \* per source read in this run: which named source it was
    r_in,               \* normalize_column_names alone: the column list
    r_out,              \* normalize_column_names alone: its result
    c_in,               \* clean_data alone: the input frame
    c_once,             \* clean_data alone: clean_data(c_in)
    c_twice             \* clean_data alone: clean_data(clean_data(c_in))

vars == <<pc, runs, if_exists, nfiles, i, dataframes, total_rows_before,
          combined_df, table, row_count, err, missing_col, warned,
          exit_code, prior, scenario, r_in, r_out, c_in, c_once, c_twice>>

--------------------------------------------------------------------------
(* Bounds of the model.                                                    *)

\* csv files in the downloaded dataset directory
MaxFiles == 2
\* rows in the csv files of one run, all files together
MaxRows == 3
\* runs of the script against the same database
MaxRuns == 2
\* rows of a frame given to clean_data alone
MaxCleanRows == 2

--------------------------------------------------------------------------
(* Python's str.lower and str.strip, on sequences of characters.           *)

UpperCase == <<"A","B","C","D","E","F","G","H","I","J","K","L","M",
               "N","O","P","Q","R","S","T","U","V","W","X","Y","Z">>
LowerCase == <<"a","b","c","d","e","f","g","h","i","j","k","l","m",
               "n","o","p","q","r","s","t","u","v","w","x","y","z">>
Whitespace == {" ", "\t"}
Digits == <<"0","1","2","3","4","5","6","7","8","9">>

SetMin(S) == CHOOSE x \in S : \A y \in S : x <= y
SetMax(S) == CHOOSE x \in S : \A y \in S : x >= y

lowerChar(c) ==
    IF \E j \in 1..26 : UpperCase[j] = c
    THEN LowerCase[CHOOSE j \in 1..26 : UpperCase[j] = c]
    ELSE c

lower(s) == [j \in 1..Len(s) |-> lowerChar(s[j])]

strip(s) ==
    LET keep == {j \in 1..Len(s) : s[j] \notin Whitespace}
    IN  IF keep = {} THEN <<>> ELSE SubSeq(s, SetMin(keep), SetMax(keep))

--------------------------------------------------------------------------
(* normalize_column_names (lines 21-44).                                   *)

target_order ==
    <<"team_name", "date", "site", "opp_name", "w_l", "pts", "opp_pts">>

target_columns == [
    team_name |-> <<<<"t","e","a","m">>,
                   <<"t","e","a","m","_","n","a","m","e">>,
                   <<"t","e","a","m","n","a","m","e">>>>,
    date      |-> <<<<"d","a","t","e">>,
                   <<"d","a","t","a">>,
                   <<"g","a","m","e","_","d","a","t","e">>,
                   <<"g","a","m","e","d","a","t","e">>>>,
    site      |-> <<<<"s","i","t","e">>,
                   <<"l","o","c","a","t","i","o","n">>,
                   <<"v","e","n","u","e">>>>,
    opp_name  |-> <<<<"o","p","p","_","n","a","m","e">>,
                   <<"o","p","p","o","n","e","n","t">>,
                   <<"o","p","p">>,
                   <<"o","p","p","o","s","i","n","g","_","t","e","a","m">>>>,
    w_l       |-> <<<<"w","_","l">>,
                   <<"w","l">>,
                   <<"r","e","s","u","l","t">>,
                   <<"w","i","n","_","l","o","s","s">>>>,
    pts       |-> <<<<"p","t","s">>,
                   <<"p","o","i","n","t","s">>,
                   <<"s","c","o","r","e">>,
                   <<"t","e","a","m","_","s","c","o","r","e">>>>,
    opp_pts   |-> <<<<"o","p","p","_","p","t","s">>,
                   <<"o","p","p","_","p","o","i","n","t","s">>,
                   <<"o","p","p","o","n","e","n","t","_","p","o","i","n","t","s">>,
                   <<"o","p","p","_","s","c","o","r","e">>>>
    ]

\* line 37: col.lower().strip() in [c.lower() for c in candidates]
ColumnMatches(col, candidates) ==
    \E a \in 1..Len(candidates) : strip(lower(col)) = lower(candidates[a])

\* the loop of lines 34-42 from the k-th target on.  The result is
\* (column_mapping, missing): column_mapping is the dict of line 23 as a
\* function from column name to target, "None" when a target has no column;
\* examined lists the targets whose loop body ran.
RECURSIVE ResolveFrom(_, _, _, _)
ResolveFrom(df_columns, k, column_mapping, examined) ==
    IF k > Len(target_order)
    THEN [column_mapping |-> column_mapping, missing |-> "None",
          examined |-> examined]
    ELSE LET target == target_order[k]
             found  == {j \in 1..Len(df_columns) :
                           ColumnMatches(df_columns[j], target_columns[target])}
         IN  IF found = {}
             THEN [column_mapping |-> "None", missing |-> target,
                   examined |-> Append(examined, target)]
             ELSE ResolveFrom(df_columns, k + 1,
                      (df_columns[SetMin(found)] :> target) @@ column_mapping,
                      Append(examined, target))

\* (the mutant checks every target and reports the last one unmet)
RECURSIVE ResolveAllFrom(_, _, _, _, _)
ResolveAllFrom(df_columns, k, column_mapping, examined, missing) ==
    IF k > Len(target_order)
    THEN [column_mapping |-> IF missing = "None" THEN column_mapping ELSE "None",
          missing |-> missing, examined |-> examined]
    ELSE LET target == target_order[k]
             found  == {j \in 1..Len(df_columns) :
                           ColumnMatches(df_columns[j], target_columns[target])}
         IN  IF found = {}
             THEN ResolveAllFrom(df_columns, k + 1, column_mapping,
                      Append(examined, target), target)
             ELSE ResolveAllFrom(df_columns, k + 1,
                      (df_columns[SetMin(found)] :> target) @@ column_mapping,
                      Append(examined, target), missing)

normalize_column_names_all(df_columns) ==
    ResolveAllFrom(df_columns, 1, <<>>, <<>>, "None")

normalize_column_names(df_columns) ==
    ResolveFrom(df_columns, 1, <<>>, <<>>)

--------------------------------------------------------------------------
(* Cells, and the parsers pandas applies to them.                          *)

Str(s) == [k |-> "str", s |-> s, n |-> 0]
Num(n) == [k |-> "num", s |-> <<>>, n |-> n]
Ts(n)  == [k |-> "ts",  s |-> <<>>, n |-> n]
NaN    == [k |-> "nan", s |-> <<>>, n |-> 0]
NaT    == [k |-> "nat", s |-> <<>>, n |-> 0]

IsDigit(c) == \E d \in 1..10 : Digits[d] = c
DigitValue(c) == (CHOOSE d \in 1..10 : Digits[d] = c) - 1

RECURSIVE DigitsValue(_)
DigitsValue(s) ==
    IF s = <<>> THEN 0
    ELSE 10 * DigitsValue(SubSeq(s, 1, Len(s) - 1)) + DigitValue(s[Len(s)])

RECURSIVE NumToStr(_)
NumToStr(n) ==
    IF n < 10 THEN <<Digits[n + 1]>>
    ELSE Append(NumToStr(n \div 10), Digits[(n % 10) + 1])

AllDigits(s) == s # <<>> /\ \A j \in 1..Len(s) : IsDigit(s[j])

\* the text of a year-month-day date, the one date format of the model
IsIsoDate(s) ==
    /\ Len(s) = 10
    /\ s[5] = "-" /\ s[8] = "-"
    /\ \A j \in {1, 2, 3, 4, 6, 7, 9, 10} : IsDigit(s[j])
    /\ DigitsValue(SubSeq(s, 6, 7)) \in 1..12
    /\ DigitsValue(SubSeq(s, 9, 10)) \in 1..31

\* astype(str) of one cell (line 52)
astype_str(c) ==
    CASE c.k = "str" -> c.s
      [] c.k = "num" -> NumToStr(c.n)
      [] c.k = "nan" -> <<"n","a","n">>
      [] c.k = "nat" -> <<"N","a","T">>
      [] c.k = "ts"  -> NumToStr(c.n)

\* pd.to_datetime(..., errors='coerce') of one cell (line 56): a timestamp
\* is numbered yyyymmdd
to_datetime(c) ==
    CASE c.k = "str" -> IF IsIsoDate(c.s)
                        THEN Ts(DigitsValue(SubSeq(c.s, 1, 4)) * 10000
                                + DigitsValue(SubSeq(c.s, 6, 7)) * 100
                                + DigitsValue(SubSeq(c.s, 9, 10)))
                        ELSE NaT
      [] c.k = "num" -> Ts(c.n)
      [] c.k = "nan" -> NaT
      [] c.k = "nat" -> NaT
      [] c.k = "ts"  -> c

\* pd.to_numeric(..., errors='coerce') of one cell (line 61)
to_numeric(c) ==
    CASE c.k = "str" -> IF AllDigits(c.s) THEN Num(DigitsValue(c.s)) ELSE NaN
      [] c.k = "num" -> c
      [] c.k = "nan" -> NaN
      [] c.k = "nat" -> NaN
      [] c.k = "ts"  -> Num(c.n)

--------------------------------------------------------------------------
(* clean_data (lines 47-63).  A frame over the canonical columns is a      *)
(* sequence of rows, a row a sequence of 7 cells in target_order.          *)

Fields == 1..Len(target_order)
FieldOf(name) == CHOOSE f \in Fields : target_order[f] = name

\* line 50: a column has dtype object when it holds a Python string
string_cols(df) == {f \in Fields : \E r \in 1..Len(df) : df[r][f].k = "str"}

\* (the mutant removes one whitespace character from each end)
strip_once(s) ==
    LET a == IF s # <<>> /\ s[1] \in Whitespace THEN Tail(s) ELSE s
    IN  IF a # <<>> /\ a[Len(a)] \in Whitespace
        THEN SubSeq(a, 1, Len(a) - 1) ELSE a

\* lines 51-52
strip_cell_once(c) == Str(strip_once(astype_str(c)))

strip_cell(c) == Str(strip(astype_str(c)))

\* lines 50-52: the string columns are those that hold strings at line 50
strip_strings(df) ==
    [r \in 1..Len(df) |->
        [f \in Fields |-> IF f \in string_cols(df) THEN strip_cell(df[r][f])
                          ELSE df[r][f]]]

\* lines 55-56
parse_date(df) ==
    [r \in 1..Len(df) |->
        [f \in Fields |-> IF f = FieldOf("date") THEN to_datetime(df[r][f])
                          ELSE df[r][f]]]

\* lines 59-61
cast_numeric(df) ==
    [r \in 1..Len(df) |->
        [f \in Fields |-> IF f \in {FieldOf("pts"), FieldOf("opp_pts")}
                          THEN to_numeric(df[r][f])
                          ELSE df[r][f]]]

\* the three passes in the order of the code (each pass is bound as the
\* element of a singleton so that it is evaluated once)
clean_data(df) ==
    CHOOSE out \in {cast_numeric(dated) :
                       dated \in {parse_date(stripped) :
                                     stripped \in {strip_strings(df)}}} : TRUE

--------------------------------------------------------------------------
(* The csv files a run can find.  What pd.read_csv returns for one file    *)
(* is a frame [columns, rows]: rows are sequences of cells, one cell per   *)
(* column.                                                                 *)

\* Scenario A's first header row
HeaderA1 ==
    <<<<"T","e","a","m">>,
      <<"D","a","t","e">>,
      <<"S","i","t","e">>,
      <<"O","p","p","o","n","e","n","t">>,
      <<"R","e","s","u","l","t">>,
      <<"S","c","o","r","e">>,
      <<"O","p","p","S","c","o","r","e">>>>
\* Scenario A's second header row
HeaderA2 ==
    <<<<"t","e","a","m","_","n","a","m","e">>,
      <<"d","a","t","e">>,
      <<"s","i","t","e">>,
      <<"o","p","p","_","n","a","m","e">>,
      <<"w","_","l">>,
      <<"p","t","s">>,
      <<"o","p","p","_","p","t","s">>>>
\* HeaderA1 with its last column spelled as the alias opp_score
HeaderA1u ==
    <<<<"T","e","a","m">>,
      <<"D","a","t","e">>,
      <<"S","i","t","e">>,
      <<"O","p","p","o","n","e","n","t">>,
      <<"R","e","s","u","l","t">>,
      <<"S","c","o","r","e">>,
      <<"O","p","p","_","S","c","o","r","e">>>>
\* no column is an alias of site
HeaderNoSite ==
    <<<<"T","e","a","m">>,
      <<"D","a","t","e">>,
      <<"A","r","e","n","a">>,
      <<"O","p","p","o","n","e","n","t">>,
      <<"R","e","s","u","l","t">>,
      <<"S","c","o","r","e">>,
      <<"O","p","p","_","S","c","o","r","e">>>>
\* the columns in reverse order, in other aliases, cases and paddings
HeaderRev ==
    <<<<" ","O","P","P","_","P","O","I","N","T","S">>,
      <<"P","o","i","n","t","s"," ">>,
      <<"W","L">>,
      <<"O","p","p">>,
      <<" ","V","e","n","u","e"," ">>,
      <<"G","a","m","e","D","a","t","e">>,
      <<"T","e","a","m","N","a","m","e">>>>

Identity == [j \in Fields |-> j]
Reversed == [j \in Fields |-> Len(target_order) + 1 - j]

\* a header row, with the canonical field whose values each column holds
HeaderPool == {
    [columns |-> HeaderA1,     holds |-> Identity],
    [columns |-> HeaderA2,     holds |-> Identity],
    [columns |-> HeaderA1u,    holds |-> Identity],
    [columns |-> HeaderNoSite, holds |-> Identity],
    [columns |-> HeaderRev,    holds |-> Reversed] }

\* Scenario A's row as read_csv types it, and the same game with a padded
\* team name
RowDuke ==
    << Str(<<"D","u","k","e">>),
       Str(<<"2","0","2","3","-","0","1","-","0","1">>),
       Str(<<"H","o","m","e">>),
       Str(<<"U","N","C">>),
       Str(<<"W">>),
       Num(70),
       Num(60) >>
RowDukePadded == [RowDuke EXCEPT ![1] = Str(<<" ","D","u","k","e">>)]
\* a game already stored by an earlier run over other data
RowStored == [clean_data(<<RowDuke>>)[1] EXCEPT ![1] = Str(<<"U","C","L","A">>)]

RowPool == {RowDuke, RowDukePadded}

RowLists(n) == UNION {[1..m -> RowPool] : m \in 0..n}

Frame(h, rs) ==
    [columns |-> h.columns,
     rows    |-> [r \in 1..Len(rs) |-> [j \in Fields |-> rs[r][h.holds[j]]]]]

Frames == {Frame(h, rs) : h \in HeaderPool, rs \in RowLists(MaxRows)}

FrameA1  == Frame([columns |-> HeaderA1,  holds |-> Identity], <<RowDuke>>)
FrameA2  == Frame([columns |-> HeaderA2,  holds |-> Identity], <<RowDuke>>)
FrameA1u == Frame([columns |-> HeaderA1u, holds |-> Identity], <<RowDuke>>)

\* which of Scenario A's sources a frame is
FrameName(df) ==
    CASE df = FrameA1  -> "A1"
      [] df = FrameA2  -> "A2"
      [] df = FrameA1u -> "A1u"
      [] OTHER         -> "other"

NoTable == [exists |-> FALSE, rows |-> <<>>]
PriorTables == {NoTable, [exists |-> TRUE, rows |-> <<RowStored>>]}

--------------------------------------------------------------------------
(* main (lines 66-174).                                                    *)

\* lines 115-119: select the mapped columns, rename them, reorder them
select_rename(df, column_mapping) ==
    LET col(f)  == CHOOSE c \in DOMAIN column_mapping :
                       column_mapping[c] = target_order[f]
        pos(f)  == CHOOSE j \in 1..Len(df.columns) : df.columns[j] = col(f)
    IN  [r \in 1..Len(df.rows) |-> [f \in Fields |-> df.rows[r][pos(f)]]]

\* pd.concat(dataframes, ignore_index=True) (line 130)
RECURSIVE concat(_)
concat(dfs) == IF dfs = <<>> THEN <<>> ELSE Head(dfs) \o concat(Tail(dfs))

\* (the mutant keeps the last of equal rows)
RECURSIVE drop_duplicates_keep_last(_)
drop_duplicates_keep_last(df) ==
    IF df = <<>> THEN <<>>
    ELSE IF \E r \in 2..Len(df) : df[r] = df[1]
         THEN drop_duplicates_keep_last(Tail(df))
         ELSE <<df[1]>> \o drop_duplicates_keep_last(Tail(df))

\* DataFrame.drop_duplicates (line 132): the first of equal rows is kept
RECURSIVE drop_duplicates(_)
drop_duplicates(df) ==
    IF df = <<>> THEN <<>>
    ELSE IF \E r \in 1..(Len(df) - 1) : df[r] = df[Len(df)]
         THEN drop_duplicates(SubSeq(df, 1, Len(df) - 1))
         ELSE Append(drop_duplicates(SubSeq(df, 1, Len(df) - 1)), df[Len(df)])

\* lines 128-136 (the mutant concatenates and keeps the duplicates)
combine_concat_only(dfs) == concat(dfs)

combine(dfs) ==
    IF Len(dfs) > 1 THEN drop_duplicates(concat(dfs)) ELSE dfs[1]

\* DataFrame.to_sql(table, if_exists=mode) (line 152), when it succeeds
\* (the mutants append in both modes, and replace in both modes)
to_sql_append_only(t, df, mode) ==
    [exists |-> TRUE, rows |-> t.rows \o df]

to_sql_replace_only(t, df, mode) ==
    [exists |-> TRUE, rows |-> df]

to_sql(t, df, mode) ==
    IF mode = "replace" THEN [exists |-> TRUE, rows |-> df]
    ELSE [exists |-> TRUE, rows |-> t.rows \o df]

\* lines 103-119 for one file: the rows loaded, the column the resolver
\* misses ("None" if none) and df_selected
process_file(df) ==
    LET res == normalize_column_names(df.columns)
    IN  [loaded      |-> Len(df.rows),
         name        |-> FrameName(df),
         missing     |-> res.missing,
         df_selected |-> IF res.missing = "None"
                         THEN select_rename(df, res.column_mapping)
                         ELSE <<>>]

\* the outcomes of lines 103-119 over the files of the model, tabulated once
Processed == {process_file(df) : df \in Frames}

\* the variables of the checks of normalize_column_names and clean_data alone
aloneVars == <<r_in, r_out, c_in, c_once, c_twice>>

\* sys.exit(1) after printing the error e
Exit1(e, col) ==
    /\ pc' = "failed"
    /\ err' = e
    /\ missing_col' = col
    /\ exit_code' = "1"

\* lines 76-84: the download fails
DownloadFail ==
    /\ pc = "download"
    /\ Exit1("download", "None")
    /\ UNCHANGED aloneVars
    /\ UNCHANGED <<runs, if_exists, nfiles, i, dataframes, total_rows_before,
                   combined_df, table, row_count, warned, prior, scenario>>

\* lines 76-88: the download succeeds and the directory holds n csv files
DownloadOk ==
    /\ pc = "download"
    /\ \E n \in 0..MaxFiles : nfiles' = n
    /\ pc' = "glob"
    /\ UNCHANGED aloneVars
    /\ UNCHANGED <<runs, if_exists, i, dataframes, total_rows_before,
                   combined_df, table, row_count, err, missing_col, warned,
                   exit_code, prior, scenario>>

\* lines 90-92
NoCsv ==
    /\ pc = "glob"
    /\ nfiles = 0
    /\ Exit1("nocsv", "None")
    /\ UNCHANGED aloneVars
    /\ UNCHANGED <<runs, if_exists, nfiles, i, dataframes, total_rows_before,
                   combined_df, table, row_count, warned, prior, scenario>>

\* lines 94-100
FoundCsv ==
    /\ pc = "glob"
    /\ nfiles > 0
    /\ pc' = "loop"
    /\ i' = 1
    /\ UNCHANGED aloneVars
    /\ UNCHANGED <<runs, if_exists, nfiles, dataframes, total_rows_before,
                   combined_df, table, row_count, err, missing_col, warned,
                   exit_code, prior, scenario>>

\* lines 102-103, 123-125: read_csv raises
ReadFail ==
    /\ pc = "loop"
    /\ Exit1("processing", "None")
    /\ UNCHANGED aloneVars
    /\ UNCHANGED <<runs, if_exists, nfiles, i, dataframes, total_rows_before,
                   combined_df, table, row_count, warned, prior, scenario>>

\* (the mutant fails after the table was dropped)
ResolveFailTableDropped ==
    /\ pc = "loop"
    /\ \E f \in Processed :
         /\ f.missing # "None"
         /\ total_rows_before + f.loaded <= MaxRows
         /\ total_rows_before' = total_rows_before + f.loaded
         /\ scenario' = Append(scenario, f.name)
         /\ Exit1("missing", f.missing)
    /\ table' = NoTable
    /\ UNCHANGED aloneVars
    /\ UNCHANGED <<runs, if_exists, nfiles, i, dataframes, combined_df,
                   row_count, warned, prior>>

\* lines 103-112: the file is read and a target has no column
ResolveFail ==
    /\ pc = "loop"
    /\ \E f \in Processed :
         /\ f.missing # "None"
         /\ total_rows_before + f.loaded <= MaxRows
         /\ total_rows_before' = total_rows_before + f.loaded
         /\ scenario' = Append(scenario, f.name)
         /\ Exit1("missing", f.missing)
    /\ UNCHANGED aloneVars
    /\ UNCHANGED <<runs, if_exists, nfiles, i, dataframes, combined_df, table,
                   row_count, warned, prior>>

\* lines 103-121: the file is read, resolved and kept
ProcessOk ==
    /\ pc = "loop"
    /\ \E f \in Processed :
         /\ f.missing = "None"
         /\ total_rows_before + f.loaded <= MaxRows
         /\ total_rows_before' = total_rows_before + f.loaded
         /\ scenario' = Append(scenario, f.name)
         /\ dataframes' = Append(dataframes, f.df_selected)
    /\ i' = i + 1
    /\ pc' = IF i = nfiles THEN "concat" ELSE "loop"
    /\ UNCHANGED aloneVars
    /\ UNCHANGED <<runs, if_exists, nfiles, combined_df, table, row_count,
                   err, missing_col, warned, exit_code, prior>>

\* lines 127-136
Concatenate ==
    /\ pc = "concat"
    /\ combined_df' = combine(dataframes)
    /\ pc' = "clean"
    /\ UNCHANGED aloneVars
    /\ UNCHANGED <<runs, if_exists, nfiles, i, dataframes, total_rows_before,
                   table, row_count, err, missing_col, warned, exit_code,
                   prior, scenario>>

\* lines 138-140.  dataframes is not read after line 135: it leaves the
\* state here.
Clean ==
    /\ pc = "clean"
    /\ combined_df' = clean_data(combined_df)
    /\ dataframes' = <<>>
    /\ pc' = "mkdir"
    /\ UNCHANGED aloneVars
    /\ UNCHANGED <<runs, if_exists, nfiles, i, total_rows_before, table,
                   row_count, err, missing_col, warned, exit_code, prior,
                   scenario>>

\* lines 142-149
MkdirOk ==
    /\ pc = "mkdir"
    /\ pc' = "persist"
    /\ UNCHANGED aloneVars
    /\ UNCHANGED <<runs, if_exists, nfiles, i, dataframes, total_rows_before,
                   combined_df, table, row_count, err, missing_col, warned,
                   exit_code, prior, scenario>>

\* line 144 raises (no handler: the interpreter prints the traceback and
\* exits with status 1)
MkdirFail ==
    /\ pc = "mkdir"
    /\ Exit1("uncaught", "None")
    /\ UNCHANGED aloneVars
    /\ UNCHANGED <<runs, if_exists, nfiles, i, dataframes, total_rows_before,
                   combined_df, table, row_count, warned, prior, scenario>>

\* lines 151-153
WriteOk ==
    /\ pc = "persist"
    /\ table' = to_sql(table, combined_df, if_exists)
    /\ pc' = "verify"
    /\ UNCHANGED aloneVars
    /\ UNCHANGED <<runs, if_exists, nfiles, i, dataframes, total_rows_before,
                   combined_df, row_count, err, missing_col, warned,
                   exit_code, prior, scenario>>

\* lines 154-156: to_sql raises.  Its rows are not stored; in replace
\* mode the old table may already have been dropped.
WriteFail ==
    /\ pc = "persist"
    /\ \/ table' = table
       \/ if_exists = "replace" /\ table.exists /\ table' = NoTable
    /\ Exit1("write", "None")
    /\ UNCHANGED aloneVars
    /\ UNCHANGED <<runs, if_exists, nfiles, i, dataframes, total_rows_before,
                   combined_df, row_count, warned, prior, scenario>>

\* lines 159-164
VerifyOk ==
    /\ pc = "verify"
    /\ table.exists
    /\ row_count' = <<Len(table.rows)>>
    /\ pc' = "summary"
    /\ UNCHANGED aloneVars
    /\ UNCHANGED <<runs, if_exists, nfiles, i, dataframes, total_rows_before,
                   combined_df, table, err, missing_col, warned, exit_code,
                   prior, scenario>>

\* lines 165-166: the query raises
VerifyFail ==
    /\ pc = "verify"
    /\ warned' = TRUE
    /\ pc' = "summary"
    /\ UNCHANGED aloneVars
    /\ UNCHANGED <<runs, if_exists, nfiles, i, dataframes, total_rows_before,
                   combined_df, table, row_count, err, missing_col, exit_code,
                   prior, scenario>>

\* (the mutant exits with status 1 when the verification warned)
SummaryWarningFatal ==
    /\ pc = "summary"
    /\ pc' = "done"
    /\ exit_code' = IF warned THEN "1" ELSE "0"
    /\ UNCHANGED aloneVars
    /\ UNCHANGED <<runs, if_exists, nfiles, i, dataframes, total_rows_before,
                   combined_df, table, row_count, err, missing_col, warned,
                   prior, scenario>>

\* lines 168-174, and the return of main
Summary ==
    /\ pc = "summary"
    /\ pc' = "done"
    /\ exit_code' = "0"
    /\ UNCHANGED aloneVars
    /\ UNCHANGED <<runs, if_exists, nfiles, i, dataframes, total_rows_before,
                   combined_df, table, row_count, err, missing_col, warned,
                   prior, scenario>>

\* lines 67-73 of the next run of the script, on the database as it is
NewRun ==
    /\ pc \in {"done", "failed"}
    /\ runs < MaxRuns
    /\ runs' = runs + 1
    /\ if_exists' \in {"replace", "append"}
    /\ pc' = "download"
    /\ nfiles' = 0 /\ i' = 0
    /\ dataframes' = <<>>
    /\ total_rows_before' = 0
    /\ combined_df' = <<>>
    /\ row_count' = <<>>
    /\ err' = "none" /\ missing_col' = "None"
    /\ warned' = FALSE
    /\ exit_code' = "none"
    /\ prior' = table
    /\ scenario' = <<>>
    /\ UNCHANGED <<table, aloneVars>>

RunStep ==
    \/ DownloadFail \/ DownloadOk \/ NoCsv \/ FoundCsv
    \/ ReadFail \/ ResolveFail \/ ProcessOk
    \/ Concatenate \/ Clean \/ MkdirOk \/ MkdirFail
    \/ WriteOk \/ WriteFail \/ VerifyOk \/ VerifyFail \/ Summary

Next == RunStep \/ NewRun

InitRun ==
    /\ pc = "download"
    /\ runs = 1
    /\ if_exists \in {"replace", "append"}
    /\ nfiles = 0 /\ i = 0
    /\ dataframes = <<>>
    /\ total_rows_before = 0
    /\ combined_df = <<>>
    /\ row_count = <<>>
    /\ err = "none" /\ missing_col = "None"
    /\ warned = FALSE
    /\ exit_code = "none"
    /\ scenario = <<>>

InitAlone ==
    /\ r_in = <<>> /\ r_out = <<>>
    /\ c_in = <<>> /\ c_once = <<>> /\ c_twice = <<>>

Init ==
    /\ InitRun
    /\ table \in PriorTables
    /\ prior = table
    /\ InitAlone

Spec == Init /\ [][Next]_vars

\* One run.  The script is single-threaded and blocks on nothing but its
\* own calls, each of which returns or raises: a run that can take a step
\* takes it.
NextFair == RunStep

SpecFair == Init /\ [][NextFair]_vars /\ WF_vars(RunStep)

--------------------------------------------------------------------------
(* normalize_column_names alone, on column lists.                          *)

\* the columns of h at the positions of S, in their order
Columns(h, S) ==
    [k \in 1..Cardinality(S) |->
        h[CHOOSE j \in S : Cardinality({x \in S : x < j}) = k - 1]]

\* every header row of the model with any of its columns left out
ColumnLists ==
    {Columns(h.columns, S) : h \in HeaderPool, S \in SUBSET Fields}

\* main() is not running
Idle ==
    /\ pc = "idle"
    /\ runs = 0
    /\ if_exists = "replace"
    /\ nfiles = 0 /\ i = 0
    /\ dataframes = <<>>
    /\ total_rows_before = 0
    /\ combined_df = <<>>
    /\ row_count = <<>>
    /\ err = "none" /\ missing_col = "None"
    /\ warned = FALSE
    /\ exit_code = "none"
    /\ scenario = <<>>
    /\ table = NoTable
    /\ prior = NoTable

runVars == <<pc, runs, if_exists, nfiles, i, dataframes, total_rows_before,
             combined_df, table, row_count, err, missing_col, warned,
             exit_code, prior, scenario>>

InitResolve ==
    /\ Idle
    /\ r_in \in ColumnLists
    /\ r_out = <<>>
    /\ c_in = <<>> /\ c_once = <<>> /\ c_twice = <<>>

Normalize ==
    /\ pc = "idle"
    /\ r_out = <<>>
    /\ r_out' = <<normalize_column_names(r_in)>>
    /\ UNCHANGED <<runVars, r_in, c_in, c_once, c_twice>>

NextResolve == Normalize

SpecResolve == InitResolve /\ [][NextResolve]_vars

--------------------------------------------------------------------------
(* clean_data alone, on frames over the canonical columns.                 *)

TeamCells == {Str(<<" "," ","D","u","k","e"," ">>), NaN, Num(7)}
DateCells == {Str(<<"2","0","2","3","-","0","1","-","0","1">>),
              Str(<<" ","n","o","t","-","a","-","d","a","t","e">>),
              NaN}
PtsCells  == {Num(70), Str(<<" ","7","0">>), Str(<<"x">>), NaN}

CleanRows ==
    {[[RowDuke EXCEPT ![1] = t] EXCEPT ![2] = d, ![6] = p] :
        t \in TeamCells, d \in DateCells, p \in PtsCells}

CleanFrames == UNION {[1..m -> CleanRows] : m \in 0..MaxCleanRows}

InitClean ==
    /\ Idle
    /\ c_in \in CleanFrames
    /\ c_once = <<>> /\ c_twice = <<>>
    /\ r_in = <<>> /\ r_out = <<>>

CleanOnce ==
    /\ pc = "idle"
    /\ c_once = <<>>
    /\ c_once' = <<clean_data(c_in)>>
    /\ UNCHANGED <<runVars, r_in, r_out, c_in, c_twice>>

CleanTwice ==
    /\ pc = "idle"
    /\ c_once # <<>>
    /\ c_twice = <<>>
    /\ c_twice' = <<clean_data(c_once[1])>>
    /\ UNCHANGED <<runVars, r_in, r_out, c_in, c_once>>

NextClean == CleanOnce \/ CleanTwice

SpecClean == InitClean /\ [][NextClean]_vars

--------------------------------------------------------------------------
(* The properties.                                                         *)

NoDuplicates(df) ==
    \A a, b \in 1..Len(df) : a # b => df[a] # df[b]

\* the positions of df that hold the first occurrence of their row
FirstOccurrences(df) ==
    {b \in 1..Len(df) : \A a \in 1..(b - 1) : df[a] # df[b]}

Terminated == pc \in {"done", "failed"}

\* C1, as stated: in a run over two files that finds Scenario A's first
\* source first and its second source second, every source read resolves
\* and the combined, deduplicated dataset has exactly 1 row.
ScenarioA_AsStated ==
    ( /\ nfiles = 2
      /\ scenario # <<>>
      /\ scenario[1] = "A1"
      /\ Len(scenario) = 2 => scenario[2] = "A2" )
    => /\ err # "missing"
       /\ pc \notin {"loop", "concat"} => Len(combined_df) = 1

\* C1, amended: a run that reads Scenario A's first source (last header
\* OppScore) fails on it, naming opp_pts; with that header spelled
\* Opp_Score, the run over the two sources resolves both and its combined,
\* deduplicated dataset has exactly 1 row, Scenario A's row.
ScenarioA_Amended ==
    /\ (scenario # <<>> /\ scenario[Len(scenario)] = "A1")
          => (pc = "failed" /\ err = "missing" /\ missing_col = "opp_pts")
    /\ ( /\ nfiles = 2
         /\ scenario \in {<<"A1u", "A2">>, <<"A2", "A1u">>}
         /\ pc \notin {"loop", "concat"} )
          => /\ err # "missing"
             /\ Len(combined_df) = 1
             /\ pc = "clean" => combined_df = <<RowDuke>>

ScenarioA_Witness ==
    /\ nfiles = 2
    /\ scenario = <<"A1u", "A2">>
    /\ pc = "done"
    /\ table.rows = combined_df

\* the canonical fields, by position in target_order, no column of cols
\* is an alias of
Unmet(cols) ==
    {f \in Fields :
        \A j \in 1..Len(cols) :
            \A a \in 1..Len(target_columns[target_order[f]]) :
                lower(strip(cols[j])) # lower(target_columns[target_order[f]][a])}

\* C2: when some canonical field has no alias among the columns,
\* normalize_column_names fails naming the first such field in canonical
\* order, and has examined the fields up to that one and none after it.
FirstUnmetNamed ==
    (r_out # <<>> /\ Unmet(r_in) # {})
    => /\ r_out[1].missing = target_order[SetMin(Unmet(r_in))]
       /\ r_out[1].examined = SubSeq(target_order, 1, SetMin(Unmet(r_in)))

FirstUnmetNamed_Witness ==
    /\ r_out # <<>>
    /\ Cardinality(Unmet(r_in)) >= 2
    /\ SetMin(Unmet(r_in)) > 1
    /\ r_out[1].missing = "site"

\* C3: a run that failed because no file was found or because a source
\* did not resolve has exit status 1 and has left the table as it was
\* when the run started.
NoWriteBeforeFailure ==
    (pc = "failed" /\ err \in {"nocsv", "missing"})
    => (exit_code = "1" /\ table = prior)

NoWriteBeforeFailure_Witness ==
    /\ pc = "failed"
    /\ err = "missing"
    /\ missing_col = "site"
    /\ Len(dataframes) >= 1
    /\ prior.exists /\ prior.rows # <<>>
    /\ table = prior

\* C4, as stated: a terminated run has exit status 1 exactly when the
\* download failed, no file was found, a source did not resolve or the
\* write failed, and is Done with status 0 otherwise.
ExitStatus_AsStated ==
    Terminated =>
        /\ exit_code = "1" <=> err \in {"download", "nocsv", "missing", "write"}
        /\ exit_code # "1" => (pc = "done" /\ exit_code = "0")

FailureCauses ==
    {"download", "nocsv", "processing", "missing", "uncaught", "write"}

\* C4, amended: every run terminates; it has exit status 1 exactly when
\* the download failed, no file was found, a file could not be read, a
\* source did not resolve, the output directory could not be made or the
\* write failed, and is Done with status 0 otherwise, a verification that
\* failed included.
ExitStatus_Amended ==
    /\ <>Terminated
    /\ [](Terminated =>
            /\ exit_code = "1" <=> err \in FailureCauses
            /\ exit_code = "1" <=> pc = "failed"
            /\ exit_code # "1" => (pc = "done" /\ exit_code = "0"))
    /\ [](~Terminated => exit_code = "none")

ExitStatus_Witness ==
    /\ pc = "done"
    /\ exit_code = "0"
    /\ warned
    /\ table # prior

\* C5: a run that is Done and whose read-back count differs from the
\* number of rows it wrote has printed a warning.
MismatchWarned ==
    (pc = "done" /\ row_count # <<>> /\ row_count[1] # Len(combined_df))
    => warned

CleanIdempotent ==
    c_twice # <<>> => c_twice[1] = c_once[1]

CleanIdempotent_Witness ==
    /\ c_twice # <<>>
    /\ Len(c_in) = 2
    /\ c_once[1] # c_in
    /\ \E r \in 1..Len(c_in) :
          /\ c_in[r][1].k = "str" /\ c_once[1][r][1].s # c_in[r][1].s
          /\ c_in[r][2].k = "str" /\ c_once[1][r][2].k = "nat"
          /\ c_in[r][6].k = "str" /\ c_once[1][r][6].k = "nan"

\* C8, as stated: the read-back count equals the number of rows the run
\* wrote, in both modes.
ReadBack_AsStated ==
    row_count # <<>> => row_count[1] = Len(combined_df)

\* C8, amended: in replace mode the read-back count equals the number of
\* rows the run wrote; in append mode it equals the number of rows the
\* table held before the run plus the number of rows the run wrote.
ReadBack_Amended ==
    row_count # <<>> =>
        row_count[1] = IF if_exists = "replace" THEN Len(combined_df)
                       ELSE Len(prior.rows) + Len(combined_df)

ReadBack_Witness ==
    /\ row_count # <<>>
    /\ if_exists = "append"
    /\ Len(prior.rows) >= 1
    /\ Len(combined_df) >= 1
    /\ row_count[1] > Len(combined_df)

\* C9: once a run has written, in replace mode the table holds the run's
\* dataset and nothing else; in append mode it holds the rows it held
\* when the run started, then the run's dataset.
TableAfterWrite ==
    pc \in {"verify", "summary", "done"} =>
        /\ table.exists
        /\ if_exists = "replace" => table.rows = combined_df
        /\ if_exists = "append" =>
              /\ Len(table.rows) = Len(prior.rows) + Len(combined_df)
              /\ SubSeq(table.rows, 1, Len(prior.rows)) = prior.rows
              /\ SubSeq(table.rows, Len(prior.rows) + 1, Len(table.rows))
                    = combined_df

TableAfterWrite_Witness ==
    /\ pc = "done"
    /\ runs = 2
    /\ if_exists = "append"
    /\ Len(prior.rows) >= 2
    /\ prior.rows[1] = RowStored
    /\ Len(combined_df) >= 1

\* C10: the dataset handed to the Loader holds no two equal rows.  It is
\* stated of the runs over two or more sources, the runs in which line 132
\* drops the duplicates of the concatenation.
LoaderGetsNoDuplicates ==
    (pc = "persist" /\ nfiles >= 2) => NoDuplicates(combined_df)

==========================================================================
